---- MODULE Spec2Model ----
(***************************************************************************)
(* Model of the body-composition tracker: the calibration engine           *)
(* (docs/js/calibration.js), the IndexedDB + Supabase store (db.js) and    *)
(* the chart refresh of app.js.                                            *)
(*                                                                         *)
(* JavaScript numbers are modelled as fixed-point integers with four       *)
(* decimals (1.0 is ONE), the resolution of the anchor literals, together  *)
(* with the non-finite values NaN, +Infinity and -Infinity.  Arithmetic is *)
(* carried out in the order the code carries it out; products and          *)
(* quotients are truncated to four decimals.                               *)
(***************************************************************************)
EXTENDS Integers, Sequences, FiniteSets, TLC

\* ------------------------------------------------------------------------
\* JavaScript values
\* ------------------------------------------------------------------------
ONE == 10^4

Num(n)    == [t |-> "num", v |-> n]
NaN       == [t |-> "nan", v |-> 0]
Inf(s)    == [t |-> "inf", v |-> s]
Null      == [t |-> "null", v |-> 0]
Undefined == [t |-> "undefined", v |-> 0]
Str(n)    == [t |-> "str", v |-> n]
BadStr    == [t |-> "badstr", v |-> 0]
Date(d)   == [t |-> "date", v |-> d]
TypeError == [t |-> "throw", v |-> 0]

\* typeof a is number and a is finite
IsNum(a) == a.t = "num"

\* x == null  (true of null and of undefined, false of 0 and of NaN)
EqNull(a) == a.t \in {"null", "undefined"}

\* ToNumber applied to an operand of an arithmetic operator
ToNumber(a) ==
    CASE a.t \in {"num", "nan", "inf", "throw"} -> a
      [] a.t = "null"      -> Num(0)
      [] a.t = "str"       -> Num(a.v)
      [] OTHER             -> NaN

Abs(n) == IF n < 0 THEN -n ELSE n
Sgn(n) == IF n < 0 THEN -1 ELSE IF n > 0 THEN 1 ELSE 0

\* |a| * |b| / ONE on non-negative fixed-point integers, without leaving
\* 32 bits for real products below 214748
MulParts(ah, al, bh, bl) == ah * bh * ONE + ah * bl + al * bh + (al * bl) \div ONE

MulAbs(a, b) == MulParts(a \div ONE, a % ONE, b \div ONE, b % ONE)

MulFx(a, b) == Sgn(a) * Sgn(b) * MulAbs(Abs(a), Abs(b))

RECURSIVE FracDigits(_, _, _)
FracDigits(r, b, k) ==
    IF k = 0 THEN 0
    ELSE ((r * 10) \div b) * 10^(k - 1) + FracDigits((r * 10) % b, b, k - 1)

\* |a| * ONE / |b| by long division, b > 0
DivAbs(a, b) == (a \div b) * ONE + FracDigits(a % b, b, 4)

DivFx(a, b) == Sgn(a) * Sgn(b) * DivAbs(Abs(a), Abs(b))

Thrown(a, b) == a.t = "throw" \/ b.t = "throw"

NegN(a) ==
    CASE a.t = "num" -> Num(-a.v)
      [] a.t = "inf" -> Inf(-a.v)
      [] OTHER       -> a

\* -x
JNeg(x) == NegN(ToNumber(x))

AddN(a, b) ==
    CASE Thrown(a, b)                  -> TypeError
      [] a.t = "nan" \/ b.t = "nan"    -> NaN
      [] a.t = "inf" /\ b.t = "inf"    -> IF a.v = b.v THEN a ELSE NaN
      [] a.t = "inf"                   -> a
      [] b.t = "inf"                   -> b
      [] OTHER                         -> Num(a.v + b.v)

\* x + y
JAdd(x, y) == AddN(ToNumber(x), ToNumber(y))

\* x - y
JSub(x, y) == AddN(ToNumber(x), JNeg(y))

MulN(a, b) ==
    CASE Thrown(a, b)                  -> TypeError
      [] a.t = "nan" \/ b.t = "nan"    -> NaN
      [] a.t = "inf" /\ b.t = "inf"    -> Inf(a.v * b.v)
      [] a.t = "inf"                   -> IF b.v = 0 THEN NaN ELSE Inf(a.v * Sgn(b.v))
      [] b.t = "inf"                   -> IF a.v = 0 THEN NaN ELSE Inf(b.v * Sgn(a.v))
      [] OTHER                         -> Num(MulFx(a.v, b.v))

\* x * y
JMul(x, y) == MulN(ToNumber(x), ToNumber(y))

DivN(a, b) ==
    CASE Thrown(a, b)                  -> TypeError
      [] a.t = "nan" \/ b.t = "nan"    -> NaN
      [] a.t = "inf" /\ b.t = "inf"    -> NaN
      [] a.t = "inf"                   -> Inf(a.v * (IF b.v < 0 THEN -1 ELSE 1))
      [] b.t = "inf"                   -> Num(0)
      [] b.v = 0                       -> IF a.v = 0 THEN NaN ELSE Inf(Sgn(a.v))
      [] OTHER                         -> Num(DivFx(a.v, b.v))

\* x / y
JDiv(x, y) == DivN(ToNumber(x), ToNumber(y))

LeN(a, b) ==
    CASE a.t \notin {"num", "inf"} \/ b.t \notin {"num", "inf"} -> FALSE
      [] a.t = "inf" /\ b.t = "inf"    -> a.v <= b.v
      [] a.t = "inf"                   -> a.v < 0
      [] b.t = "inf"                   -> b.v > 0
      [] OTHER                         -> a.v <= b.v

\* x <= y : false as soon as an operand is NaN
JLe(x, y) == LeN(ToNumber(x), ToNumber(y))

\* x >= y
JGe(x, y) == LeN(ToNumber(y), ToNumber(x))

MaxN(a, b) ==
    CASE Thrown(a, b)                  -> TypeError
      [] a.t = "nan" \/ b.t = "nan"    -> NaN
      [] OTHER                         -> IF LeN(b, a) THEN a ELSE b

MinN(a, b) ==
    CASE Thrown(a, b)                  -> TypeError
      [] a.t = "nan" \/ b.t = "nan"    -> NaN
      [] OTHER                         -> IF LeN(a, b) THEN a ELSE b

\* Math.max(x, y), Math.min(x, y) : NaN as soon as an operand is NaN
MathMax(x, y) == MaxN(ToNumber(x), ToNumber(y))
MathMin(x, y) == MinN(ToNumber(x), ToNumber(y))

\* parseFloat(x): the number a numeric string denotes, the number itself,
\* NaN for anything else (null, undefined, a string that is not numeric)
parseFloat(x) ==
    CASE x.t = "str"                       -> Num(x.v)
      [] x.t \in {"num", "nan", "inf"}     -> x
      [] OTHER                             -> NaN

\* ------------------------------------------------------------------------
\* Objects: functions from field names to values
\* ------------------------------------------------------------------------
\* o.f : undefined when the object has no such own field
Get(o, f) == IF f \in DOMAIN o THEN o[f] ELSE Undefined

\* o.f = v
Put(o, f, v) == (f :> v) @@ o

RawFields == {"date", "weight", "fat_percent"}
CalFields == {"fat_percent_cal", "muscle_percent", "fat_lbs", "muscle_lbs"}

\* ------------------------------------------------------------------------
\* calibration.js : constants
\* ------------------------------------------------------------------------
MUSCLE_MODEL == [intercept |-> Num(488591), weightCoef |-> Num(119), fatCoef |-> Num(-5854)]

WEIGHT_BIAS == Num(13000)

FAT_BIAS_ANCHORS ==
    << <<Num(1678000), Num(40000)>>,
       <<Num(1723470), Num(44028)>>,
       <<Num(1830000), Num(71000)>> >>

MUSCLE_CAL == [slope |-> Num(11321), intercept |-> Num(8285)]

FAT_MIN == Num(5 * ONE)
FAT_MAX == Num(35 * ONE)
HUNDRED == Num(100 * ONE)

VARIABLES
    anchorTable,   \* the fat-bias anchor table the engine runs with
    heap,          \* the objects of the engine run: a sequence, a reference is an index
    rows,          \* the caller's array handed to calibrate: references
    before,        \* the value of every caller object when calibrate was called
    result,        \* the array calibrate returned: references
    calPc,         \* "build", "done" (calibrate returned), "threw", or "bias"
                   \* (fatBiasForWeight returned)
    biasIn,        \* the argument of the last fatBiasForWeight evaluation
    biasOut        \* and its result

engineVars == <<anchorTable, heap, rows, before, result, calPc, biasIn, biasOut>>

\* the state of db.js and of the chart refresh of app.js
VARIABLES
    supa,          \* supaConfigured(): SUPA_URL and SUPA_KEY are both set
    local,         \* the IndexedDB object store: objects, at most one per date
    cloud,         \* the Supabase table: rows, at most one per date
    inflight,      \* the upsert requests sent and not yet answered
    entered,       \* every raw row a user, a file or the cloud has supplied
    savePc,        \* saveMeasurement: 0 when not running, else the step it is at
    saveRow,       \* saveMeasurement: its row
    saveStatus,    \* saveMeasurement: "none", "pending", "ok" or "failed"
    saveCommitted, \* saveMeasurement: the local write of its row has committed
    impPc,         \* importJSON: "idle" or "put"
    impQueue,      \* importJSON: the elements still to store
    impCount,      \* importJSON: count
    impStatus,     \* importJSON: "none", "pending", "ok" or "failed"
    sfPc,          \* syncFromCloud: "idle", "fetch" or "put"
    sfRows,        \* syncFromCloud: the fetched rows still to store
    sfCount,       \* syncFromCloud: count
    sfStatus,      \* syncFromCloud: "none", "pending", "ok" or "failed"
    sfBefore,      \* syncFromCloud: the local store when it was called
    sfFetched,     \* syncFromCloud: the array supaFetchAll() returned to it
    sfLocal,       \* syncFromCloud: the local store as its last step left it
    sfAlone,       \* syncFromCloud: at each of its steps the local store was
                   \* as its step before had left it
    stPc,          \* syncToCloud: "idle", "read", "send" or "wait"
    stRows,        \* syncToCloud: the local rows still to send
    stCount,       \* syncToCloud: count
    stStatus,      \* syncToCloud: "none", "pending" or "ok"
    rcPc,          \* refreshCharts: "idle" or "read"
    chartData,     \* the calibrated rows last handed to the charts
    ops            \* the number of operations started

appVars == <<supa, local, cloud, inflight, entered, savePc, saveRow, saveStatus,
             saveCommitted, impPc, impQueue, impCount, impStatus, sfPc, sfRows,
             sfCount, sfStatus, sfBefore, sfFetched, sfLocal, sfAlone, stPc, stRows, stCount, stStatus, rcPc, chartData, ops>>

vars == <<engineVars, appVars>>

\* ------------------------------------------------------------------------
\* calibration.js : fatBiasForWeight
\* ------------------------------------------------------------------------
\* pts[i][j] with JavaScript's 0-based indices; reading a field of the
\* undefined pts[i] throws a TypeError
Elem(pts, i, j) ==
    IF i < 0 \/ i >= Len(pts) THEN TypeError ELSE pts[i + 1][j + 1]

\* the body of the interpolation loop for segment i
interpolate(pts, i, rawWeight) ==
    JAdd(Elem(pts, i, 1),
         JMul(JDiv(JSub(rawWeight, Elem(pts, i, 0)),
                   JSub(Elem(pts, i + 1, 0), Elem(pts, i, 0))),
              JSub(Elem(pts, i + 1, 1), Elem(pts, i, 1))))

\* the slope of the segment from anchor i to anchor j
slopeOf(pts, i, j) ==
    JDiv(JSub(Elem(pts, j, 1), Elem(pts, i, 1)),
         JSub(Elem(pts, j, 0), Elem(pts, i, 0)))

\* the first anchor's bias held below the first anchor
extrapolateLowFlat(pts, rawWeight) == Elem(pts, 0, 1)

\* extrapolation along the first segment
extrapolateLow(pts, rawWeight) ==
    JAdd(Elem(pts, 0, 1), JMul(slopeOf(pts, 0, 1), JSub(rawWeight, Elem(pts, 0, 0))))

\* extrapolateHigh with the bias of the wrong anchor as its base
extrapolateHighFromPrev(pts, rawWeight) ==
    JAdd(Elem(pts, Len(pts) - 2, 1),
         JMul(slopeOf(pts, Len(pts) - 2, Len(pts) - 1),
              JSub(rawWeight, Elem(pts, Len(pts) - 1, 0))))

\* extrapolation along the last segment
extrapolateHigh(pts, rawWeight) ==
    JAdd(Elem(pts, Len(pts) - 1, 1),
         JMul(slopeOf(pts, Len(pts) - 2, Len(pts) - 1),
              JSub(rawWeight, Elem(pts, Len(pts) - 1, 0))))

\* the segments whose loop condition holds for rawWeight
Bracketing(pts, rawWeight) ==
    {i \in 0..(Len(pts) - 2) :
        JGe(rawWeight, Elem(pts, i, 0)) /\ JLe(rawWeight, Elem(pts, i + 1, 0))}

Min(S) == CHOOSE m \in S : \A k \in S : m <= k

\* the loop: the first segment that brackets rawWeight; undefined when the
\* loop ends without a return
interpolateFirst(pts, hits, rawWeight) ==
    IF hits # {} THEN interpolate(pts, Min(hits), rawWeight) ELSE Undefined

biasIn3(pts, n, rawWeight) ==
    IF n = 0 THEN TypeError
    ELSE IF JLe(rawWeight, Elem(pts, 0, 0)) THEN extrapolateLow(pts, rawWeight)
    ELSE IF JGe(rawWeight, Elem(pts, n - 1, 0)) THEN extrapolateHigh(pts, rawWeight)
    ELSE interpolateFirst(pts, Bracketing(pts, rawWeight), rawWeight)

fatBiasForWeight(rawWeight) == biasIn3(anchorTable, Len(anchorTable), rawWeight)

\* ------------------------------------------------------------------------
\* calibration.js : calibrate
\* ------------------------------------------------------------------------
\* const out = r : the caller's object itself
SpreadAlias(h, r) == [heap |-> h, ref |-> r]

\* const out = { ...r } : a new object with r's own fields
Spread(h, r) == [heap |-> Append(h, h[r]), ref |-> Len(h) + 1]

\* out.f = v on the object behind a reference
Write(h, ref, f, v) == [h EXCEPT ![ref] = Put(@, f, v)]

\* a clamp that has lost its upper limit
clampFatLowOnly(x) == MathMax(x, FAT_MIN)

\* the clamp of the corrected fat%
clampFat(x) == MathMin(MathMax(x, FAT_MIN), FAT_MAX)

\* a guard by truthiness: !r.fat_percent || !r.weight
uncalibratableFalsy(obj) ==
    \/ EqNull(Get(obj, "fat_percent")) \/ EqNull(Get(obj, "weight"))
    \/ Get(obj, "fat_percent") \in {Num(0), NaN}
    \/ Get(obj, "weight") \in {Num(0), NaN}

\* a guard that looks at fat_percent only
uncalibratableFatOnly(obj) == EqNull(Get(obj, "fat_percent"))

\* the guard of the callback: r.fat_percent == null || r.weight == null
uncalibratable(obj) == EqNull(Get(obj, "fat_percent")) \/ EqNull(Get(obj, "weight"))

\* a weight correction with the wrong sign
correctWeightAdd(weight) == JAdd(weight, WEIGHT_BIAS)

\* 1. weight correction
correctWeight(weight) == JSub(weight, WEIGHT_BIAS)

\* the weight of the record before r in the array (r's own for the first)
biasWeightPrev(h, r) == Get(h[IF r > 1 THEN r - 1 ELSE r], "weight")

\* the bias looked up at the corrected weight
biasWeightCorrected(h, r) == JSub(Get(h[r], "weight"), WEIGHT_BIAS)

\* 2. the weight the fat% bias is looked up at: r.weight
biasWeight(h, r) == Get(h[r], "weight")

\* 3. muscle% from the linear model on the corrected inputs, then the affine
\* calibration
musclePctOf(corrWeight, corrFat) ==
    JAdd(JMul(MUSCLE_CAL.slope,
              JAdd(JAdd(MUSCLE_MODEL.intercept, JMul(corrWeight, MUSCLE_MODEL.weightCoef)),
                   JMul(corrFat, MUSCLE_MODEL.fatCoef))),
         MUSCLE_CAL.intercept)

\* the five assignments to out
assign(h, out, corrWeight, corrFat, musclePct) ==
    Write(Write(Write(Write(Write(h,
        out, "weight", corrWeight),
        out, "fat_percent_cal", corrFat),
        out, "muscle_percent", musclePct),
        out, "fat_lbs", JDiv(JMul(corrWeight, corrFat), HUNDRED)),
        out, "muscle_lbs", JDiv(JMul(corrWeight, musclePct), HUNDRED))

\* muscle% from the weight the record came with
deriveRaw(h, out, corrWeight, corrFat) ==
    [heap  |-> assign(h, out, corrWeight, corrFat,
                      musclePctOf(Get(h[out], "weight"), corrFat)),
     ref   |-> out,
     threw |-> FALSE]

\* steps 3 and 4 of the callback, given the corrected weight and fat%
derive(h, out, corrWeight, corrFat) ==
    [heap  |-> assign(h, out, corrWeight, corrFat, musclePctOf(corrWeight, corrFat)),
     ref   |-> out,
     threw |-> FALSE]

\* steps 1 to 4 of the callback, given the fat% bias; a TypeError thrown by
\* fatBiasForWeight leaves the callback
correct(h, r, out, fatBias) ==
    IF fatBias.t = "throw"
    THEN [heap |-> h, ref |-> out, threw |-> TRUE]
    ELSE derive(h, out, correctWeight(Get(h[r], "weight")),
                clampFat(JSub(Get(h[r], "fat_percent"), fatBias)))

\* the callback after const out = { ...r }
calibrateSpread(h, r, out) ==
    IF uncalibratable(h[r])
    THEN [heap |-> h, ref |-> out, threw |-> FALSE]
    ELSE correct(h, r, out, fatBiasForWeight(biasWeight(h, r)))

spreadThen(sp, r) == calibrateSpread(sp.heap, r, sp.ref)

\* the callback of rows.map, on the object behind reference r
calibrateRow(h, r) == spreadThen(Spread(h, r), r)

RECURSIVE mapRows(_, _, _, _)

\* what map does with the outcome of the callback on element i: an exception
\* leaves map without a result
mapStep(step, rs, i, acc) ==
    IF step.threw
    THEN [heap |-> step.heap, result |-> <<>>, threw |-> TRUE]
    ELSE mapRows(step.heap, rs, i + 1, Append(acc, step.ref))

\* a map that leaves out the records it cannot calibrate
mapRowsSkip(h, rs, i, acc) ==
    IF i > Len(rs) THEN [heap |-> h, result |-> acc, threw |-> FALSE]
    ELSE IF uncalibratable(h[rs[i]]) THEN mapRows(h, rs, i + 1, acc)
    ELSE mapStep(calibrateRow(h, rs[i]), rs, i, acc)

\* rows.map(callback): the callback on every element in index order
mapRows(h, rs, i, acc) ==
    IF i > Len(rs) THEN [heap |-> h, result |-> acc, threw |-> FALSE]
    ELSE mapStep(calibrateRow(h, rs[i]), rs, i, acc)

\* calibrate(rows) on a heap: the new heap and the references returned
calibrateHeap(h, rs) == mapRows(h, rs, 1, <<>>)

\* the objects behind the references calibrate returned
resultObjects(run) == [i \in 1..Len(run.result) |-> run.heap[run.result[i]]]

\* calibrate(rows) on values: the objects of the returned array
calibrate(objs) == resultObjects(calibrateHeap(objs, [i \in 1..Len(objs) |-> i]))

\* ------------------------------------------------------------------------
\* The engine called on its own: a caller builds an array and calibrates it
\* ------------------------------------------------------------------------
MaxLen == 2

Row(d, w, f) == [date |-> Date(d), weight |-> w, fat_percent |-> f]

\* records with both readings: below, between and above the anchors, with a
\* fat% that undershoots, stays inside and overshoots the clamp
FullRows ==
    {Row(1, w, f) : w \in {Num(1500000), Num(1700000), Num(2500000)},
                    f \in {Num(30000), Num(180000), Num(600000)}}

\* records with a reading null or absent, with a zero reading, on an anchor,
\* with a fat% the clamp leaves alone, with fields of their own, and with a
\* weight that is not a number
OddRows ==
    { Row(2, Null, Num(180000)),
      Row(2, Num(1700000), Null),
      [date |-> Date(2), fat_percent |-> Num(180000)],
      [date |-> Date(2), weight |-> Num(1700000)],
      Row(2, Num(0), Num(0)),
      Put(Row(2, Num(1678000), Num(186000)), "note", Str(1)),
      Put(Row(2, Num(1830000), Num(200000)), "fat_percent_cal", Num(990000)),
      Row(2, Num(1723470), Num(180000)),
      Row(2, NaN, Num(180000)) }

InputRows == FullRows \cup OddRows

\* the weights fatBiasForWeight is evaluated at: the anchors, both sides of
\* each, far out on either side
BiasInputs ==
    {Num(w) : w \in {-1000000, 0, 1500000, 1677999, 1678000, 1678001, 1700000,
                     1723469, 1723470, 1723471, 1800000, 1829999, 1830000,
                     1830001, 2500000, 10000000}} \cup {NaN}

EngineInit ==
    /\ heap = <<>>
    /\ rows = <<>>
    /\ before = <<>>
    /\ result = <<>>
    /\ calPc = "build"
    /\ biasIn = Undefined
    /\ biasOut = Undefined

\* the caller puts one more record into the array it is going to calibrate
AddRow(obj) ==
    /\ calPc = "build"
    /\ Len(rows) < MaxLen
    /\ heap' = Append(heap, obj)
    /\ rows' = Append(rows, Len(heap) + 1)
    /\ UNCHANGED <<anchorTable, before, result, calPc, biasIn, biasOut>>
    /\ UNCHANGED appVars

\* calibrate has run: its result, or the exception it threw
Returns(run) ==
    /\ heap' = run.heap
    /\ result' = run.result
    /\ calPc' = IF run.threw THEN "threw" ELSE "done"

\* calibrate(rows)
CallCalibrate ==
    /\ calPc = "build"
    /\ Returns(calibrateHeap(heap, rows))
    /\ before' = [i \in 1..Len(rows) |-> heap[rows[i]]]
    /\ UNCHANGED <<anchorTable, rows, biasIn, biasOut>>
    /\ UNCHANGED appVars

\* fatBiasForWeight(w), called on its own
EvalBias(w) ==
    /\ calPc = "build"
    /\ rows = <<>>
    /\ biasIn' = w
    /\ biasOut' = fatBiasForWeight(w)
    /\ calPc' = "bias"
    /\ UNCHANGED <<anchorTable, heap, rows, before, result>>
    /\ UNCHANGED appVars

NextCal ==
    \/ \E obj \in InputRows : AddRow(obj)
    \/ CallCalibrate
    \/ \E w \in BiasInputs : EvalBias(w)

\* ------------------------------------------------------------------------
\* db.js : the local store, the cloud and the operations of window.db
\* ------------------------------------------------------------------------
MaxDate == 2
MaxOps  == 2

DateKeys == 1..MaxDate

EmptyStr == [t |-> "emptystr", v |-> 0]

\* a put that keeps the row already stored under the date
storeAdd(store, row) ==
    IF \E o \in store : o.date = row.date THEN store ELSE store \cup {row}

\* objectStore.put(row) with keyPath 'date', and the merge-duplicates upsert
\* of the cloud table: the row replaces the one with its date
storePut(store, row) == {o \in store : o.date # row.date} \cup {row}

\* rows sorted by date ascending
RECURSIVE SortByDate(_)
SortByDate(S) ==
    IF S = {} THEN <<>>
    ELSE LET first == CHOOSE o \in S : \A p \in S : o.date.v <= p.date.v
         IN  <<first>> \o SortByDate(S \ {first})

\* localGetAll()
localGetAll(store) == SortByDate(store)

\* the row saveMeasurement builds
saveMeasurementRow(dateStr, weight, fatPercent) ==
    [date        |-> dateStr,
     weight      |-> parseFloat(weight),
     fat_percent |-> IF ~EqNull(fatPercent) /\ fatPercent # EmptyStr
                     THEN parseFloat(fatPercent) ELSE Null]

\* the cloud upsert started before the local write
saveMeasurementStepsCloudFirst == <<"supaUpsert", "localPut">>

\* the order of the two statements of saveMeasurement after the row is built
saveMeasurementSteps == <<"localPut", "supaUpsert">>

\* the element stored as it came
importRowWhole(row) == row

\* the object importJSON stores for an element of the array
importRow(row) ==
    [date        |-> Get(row, "date"),
     weight      |-> parseFloat(Get(row, "weight")),
     fat_percent |-> IF ~EqNull(Get(row, "fat_percent"))
                     THEN parseFloat(Get(row, "fat_percent")) ELSE Null]

\* JSON.stringify of a field value: NaN and the infinities become null
jsonValue(x) == IF x.t \in {"nan", "inf"} THEN Null ELSE x

\* the body supaUpsert posts: JSON.stringify({date, weight, fat_percent}),
\* which leaves out a field whose value is undefined
upsertBody(row) ==
    LET picked == [f \in RawFields |-> Get(row, f)]
        kept   == {f \in RawFields : picked[f] # Undefined}
    IN  [f \in kept |-> jsonValue(picked[f])]

\* select=date,weight,fat_percent&order=date
selectRows(table) ==
    SortByDate({[f \in RawFields |-> Get(o, f)] : o \in table})

\* the values typed into the form, the files imported, the cloud's first content
SaveInputs ==
    { <<Str(1700000), Str(180000)>>, <<Str(1700000), EmptyStr>>, <<BadStr, Null>> }

ImportElements ==
    << [date |-> Date(1), weight |-> Num(1650000), fat_percent |-> Num(180000),
        fat_percent_cal |-> Num(138052), muscle_percent |-> Num(492655),
        fat_lbs |-> Num(232893), muscle_lbs |-> Num(831108)],
       [date |-> Date(MaxDate), weight |-> Str(1500000), fat_percent |-> Null] >>

\* the arrays imported: empty, one element, two elements
ImportFiles == {SubSeq(ImportElements, 1, n) : n \in 0..2}

InitialClouds ==
    { {}, {Put(Row(1, Num(1830000), Num(200000)), "id", Num(7 * ONE))} }

AppInit ==
    /\ supa = FALSE
    /\ local = {}
    /\ cloud \in InitialClouds
    /\ inflight = {}
    /\ entered = {[f \in RawFields |-> o[f]] : o \in cloud}
    /\ savePc = 0
    /\ saveRow = Row(1, Null, Null)
    /\ saveStatus = "none"
    /\ saveCommitted = FALSE
    /\ impPc = "idle"
    /\ impQueue = <<>>
    /\ impCount = 0
    /\ impStatus = "none"
    /\ sfPc = "idle"
    /\ sfRows = <<>>
    /\ sfCount = 0
    /\ sfStatus = "none"
    /\ sfBefore = {}
    /\ sfFetched = <<>>
    /\ sfLocal = {}
    /\ sfAlone = TRUE
    /\ stPc = "idle"
    /\ stRows = <<>>
    /\ stCount = 0
    /\ stStatus = "none"
    /\ rcPc = "idle"
    /\ chartData = <<>>
    /\ ops = 0

saveVars == <<savePc, saveRow, saveStatus, saveCommitted>>
impVars  == <<impPc, impQueue, impCount, impStatus>>
sfVars   == <<sfPc, sfRows, sfCount, sfStatus, sfBefore, sfFetched, sfLocal, sfAlone>>
stVars   == <<stPc, stRows, stCount, stStatus>>
rcVars   == <<rcPc, chartData>>

\* settings: db.setSupa(url, key) with both non-empty
SetSupa ==
    /\ ~supa
    /\ supa' = TRUE
    /\ UNCHANGED <<engineVars, local, cloud, inflight, entered, saveVars, impVars,
                   sfVars, stVars, rcVars, ops>>

\* saveMeasurement(dateStr, weight, fatPercent) up to its first await
SaveCall(d, w, f) ==
    /\ savePc = 0
    /\ ops < MaxOps
    /\ ops' = ops + 1
    /\ saveRow' = saveMeasurementRow(Date(d), w, f)
    /\ entered' = entered \cup {saveMeasurementRow(Date(d), w, f)}
    /\ savePc' = 1
    /\ saveStatus' = "pending"
    /\ saveCommitted' = FALSE
    /\ UNCHANGED <<engineVars, supa, local, cloud, inflight, impVars, sfVars,
                   stVars, rcVars>>

\* saveMeasurement moves past the statement at savePc; past the last one it resolves
SaveAdvance ==
    /\ savePc' = IF savePc = Len(saveMeasurementSteps) THEN 0 ELSE savePc + 1
    /\ saveStatus' = IF savePc = Len(saveMeasurementSteps) THEN "ok" ELSE saveStatus

\* await localPut(row): the transaction completes
SaveLocalPut ==
    /\ savePc > 0
    /\ saveMeasurementSteps[savePc] = "localPut"
    /\ local' = storePut(local, saveRow)
    /\ saveCommitted' = TRUE
    /\ SaveAdvance
    /\ UNCHANGED <<engineVars, supa, cloud, inflight, entered, saveRow, impVars,
                   sfVars, stVars, rcVars, ops>>

\* await localPut(row): the transaction fails and saveMeasurement rejects
SaveLocalPutError ==
    /\ savePc > 0
    /\ saveMeasurementSteps[savePc] = "localPut"
    /\ savePc' = 0
    /\ saveStatus' = "failed"
    /\ UNCHANGED <<engineVars, supa, local, cloud, inflight, entered, saveRow,
                   saveCommitted, impVars, sfVars, stVars, rcVars, ops>>

\* supaUpsert(row), not awaited: returns at once when the cloud is not
\* configured, else sends the request
SaveSupaUpsert ==
    /\ savePc > 0
    /\ saveMeasurementSteps[savePc] = "supaUpsert"
    /\ inflight' = IF supa
                   THEN inflight \cup {[from |-> "save", body |-> upsertBody(saveRow)]}
                   ELSE inflight
    /\ SaveAdvance
    /\ UNCHANGED <<engineVars, supa, local, cloud, entered, saveRow, saveCommitted,
                   impVars, sfVars, stVars, rcVars, ops>>

\* importJSON(jsonArray) up to its first await
ImportCall(arr) ==
    /\ impPc = "idle"
    /\ ops < MaxOps
    /\ ops' = ops + 1
    /\ entered' = entered \cup {importRow(arr[i]) : i \in 1..Len(arr)}
    /\ impQueue' = arr
    /\ impCount' = 0
    /\ impPc' = IF arr = <<>> THEN "idle" ELSE "put"
    /\ impStatus' = IF arr = <<>> THEN "ok" ELSE "pending"
    /\ UNCHANGED <<engineVars, supa, local, cloud, inflight, saveVars, sfVars,
                   stVars, rcVars>>

\* one turn of the loop of importJSON: await localPut({...}); count++
ImportPut ==
    /\ impPc = "put"
    /\ local' = storePut(local, importRow(Head(impQueue)))
    /\ impQueue' = Tail(impQueue)
    /\ impCount' = impCount + 1
    /\ impPc' = IF Tail(impQueue) = <<>> THEN "idle" ELSE "put"
    /\ impStatus' = IF Tail(impQueue) = <<>> THEN "ok" ELSE "pending"
    /\ UNCHANGED <<engineVars, supa, cloud, inflight, entered, saveVars, sfVars,
                   stVars, rcVars, ops>>

\* the transaction fails and importJSON rejects
ImportPutError ==
    /\ impPc = "put"
    /\ impPc' = "idle"
    /\ impStatus' = "failed"
    /\ impQueue' = <<>>
    /\ UNCHANGED <<engineVars, supa, local, cloud, inflight, entered, saveVars,
                   impCount, sfVars, stVars, rcVars, ops>>

\* syncFromCloud() up to its first await: 0 when the cloud is not configured
SyncFromCall ==
    /\ sfPc = "idle"
    /\ ops < MaxOps
    /\ ops' = ops + 1
    /\ sfCount' = 0
    /\ sfRows' = <<>>
    /\ sfPc' = IF supa THEN "fetch" ELSE "idle"
    /\ sfStatus' = IF supa THEN "pending" ELSE "ok"
    /\ sfBefore' = local
    /\ sfFetched' = <<>>
    /\ sfLocal' = local
    /\ sfAlone' = TRUE
    /\ UNCHANGED <<engineVars, supa, local, cloud, inflight, entered, saveVars,
                   impVars, stVars, rcVars>>

\* supaFetchAll() answers with the rows of the table
SyncFromFetched ==
    /\ sfPc = "fetch"
    /\ sfRows' = selectRows(cloud)
    /\ sfPc' = IF selectRows(cloud) = <<>> THEN "idle" ELSE "put"
    /\ sfStatus' = IF selectRows(cloud) = <<>> THEN "ok" ELSE "pending"
    /\ sfFetched' = selectRows(cloud)
    /\ sfAlone' = (sfAlone /\ local = sfLocal)
    /\ UNCHANGED <<engineVars, supa, local, cloud, inflight, entered, saveVars,
                   impVars, sfCount, sfBefore, sfLocal, stVars, rcVars, ops>>

\* supaFetchAll() fails (network error or a response that is not ok): []
SyncFromFetchFailed ==
    /\ sfPc = "fetch"
    /\ sfRows' = <<>>
    /\ sfPc' = "idle"
    /\ sfStatus' = "ok"
    /\ sfFetched' = <<>>
    /\ sfAlone' = (sfAlone /\ local = sfLocal)
    /\ UNCHANGED <<engineVars, supa, local, cloud, inflight, entered, saveVars,
                   impVars, sfCount, sfBefore, sfLocal, stVars, rcVars, ops>>

\* one turn of the loop of syncFromCloud: await localPut(row); count++
SyncFromPut ==
    /\ sfPc = "put"
    /\ local' = storePut(local, Head(sfRows))
    /\ sfRows' = Tail(sfRows)
    /\ sfCount' = sfCount + 1
    /\ sfPc' = IF Tail(sfRows) = <<>> THEN "idle" ELSE "put"
    /\ sfStatus' = IF Tail(sfRows) = <<>> THEN "ok" ELSE "pending"
    /\ sfLocal' = storePut(local, Head(sfRows))
    /\ sfAlone' = (sfAlone /\ local = sfLocal)
    /\ UNCHANGED <<engineVars, supa, cloud, inflight, entered, saveVars, impVars,
                   sfBefore, sfFetched, stVars, rcVars, ops>>

\* the transaction fails and syncFromCloud rejects
SyncFromPutError ==
    /\ sfPc = "put"
    /\ sfPc' = "idle"
    /\ sfStatus' = "failed"
    /\ sfRows' = <<>>
    /\ UNCHANGED <<engineVars, supa, local, cloud, inflight, entered, saveVars,
                   impVars, sfCount, sfBefore, sfFetched, sfLocal, sfAlone, stVars,
                   rcVars, ops>>

\* syncToCloud() up to its first await: 0 when the cloud is not configured
SyncToCall ==
    /\ stPc = "idle"
    /\ ops < MaxOps
    /\ ops' = ops + 1
    /\ stCount' = 0
    /\ stRows' = <<>>
    /\ stPc' = IF supa THEN "read" ELSE "idle"
    /\ stStatus' = IF supa THEN "pending" ELSE "ok"
    /\ UNCHANGED <<engineVars, supa, local, cloud, inflight, entered, saveVars,
                   impVars, sfVars, rcVars>>

\* const local = await localGetAll()
SyncToRead ==
    /\ stPc = "read"
    /\ stRows' = localGetAll(local)
    /\ stPc' = IF local = {} THEN "idle" ELSE "send"
    /\ stStatus' = IF local = {} THEN "ok" ELSE "pending"
    /\ UNCHANGED <<engineVars, supa, local, cloud, inflight, entered, saveVars,
                   impVars, sfVars, stCount, rcVars, ops>>

\* await supaUpsert(row): the request is sent
SyncToSend ==
    /\ stPc = "send"
    /\ inflight' = inflight \cup {[from |-> "syncTo", body |-> upsertBody(Head(stRows))]}
    /\ stPc' = "wait"
    /\ UNCHANGED <<engineVars, supa, local, cloud, entered, saveVars, impVars,
                   sfVars, stRows, stCount, stStatus, rcVars, ops>>

\* what the answer to a request resumes: nothing for the request of a save,
\* the loop of syncToCloud (count++) for its own
Resume(m) ==
    IF m.from = "syncTo"
    THEN /\ stCount' = stCount + 1
         /\ stRows' = Tail(stRows)
         /\ stPc' = IF Tail(stRows) = <<>> THEN "idle" ELSE "send"
         /\ stStatus' = IF Tail(stRows) = <<>> THEN "ok" ELSE "pending"
    ELSE UNCHANGED stVars

\* the cloud stores the row of a request and answers
UpsertDelivered(m) ==
    /\ m \in inflight
    /\ cloud' = storePut(cloud, m.body)
    /\ inflight' = inflight \ {m}
    /\ Resume(m)
    /\ UNCHANGED <<engineVars, supa, local, entered, saveVars, impVars, sfVars,
                   rcVars, ops>>

\* a request fails, or the cloud refuses it: supaUpsert catches or ignores that
UpsertFailed(m) ==
    /\ m \in inflight
    /\ inflight' = inflight \ {m}
    /\ Resume(m)
    /\ UNCHANGED <<engineVars, supa, local, cloud, entered, saveVars, impVars,
                   sfVars, rcVars, ops>>

\* app.js : refreshCharts() up to its await
RefreshStart ==
    /\ rcPc = "idle"
    /\ ops < MaxOps
    /\ ops' = ops + 1
    /\ rcPc' = "read"
    /\ UNCHANGED <<engineVars, supa, local, cloud, inflight, entered, saveVars,
                   impVars, sfVars, stVars, chartData>>

\* the rows of allData on or after the slider's date; all of them when the
\* slider is at its maximum (since is null, here 0)
filterSince(allData, since) ==
    IF since = 0 THEN allData
    ELSE SelectSeq(allData, LAMBDA r : r.date.v >= since)

\* app.js : refreshCharts() after getAllMeasurements() has answered
RefreshRender(since) ==
    /\ rcPc = "read"
    /\ chartData' = calibrate(filterSince(localGetAll(local), since))
    /\ rcPc' = "idle"
    /\ UNCHANGED <<engineVars, supa, local, cloud, inflight, entered, saveVars,
                   impVars, sfVars, stVars, ops>>

Next ==
    \/ SetSupa
    \/ \E d \in DateKeys, in \in SaveInputs : SaveCall(d, in[1], in[2])
    \/ SaveLocalPut
    \/ SaveLocalPutError
    \/ SaveSupaUpsert
    \/ \E arr \in ImportFiles : ImportCall(arr)
    \/ ImportPut
    \/ ImportPutError
    \/ SyncFromCall
    \/ SyncFromFetched
    \/ SyncFromFetchFailed
    \/ SyncFromPut
    \/ SyncFromPutError
    \/ SyncToCall
    \/ SyncToRead
    \/ SyncToSend
    \/ \E m \in inflight : UpsertDelivered(m)
    \/ \E m \in inflight : UpsertFailed(m)
    \/ RefreshStart
    \/ \E since \in 0..MaxDate : RefreshRender(since)

\* the application: the store, the cloud and the charts
Init == anchorTable = FAT_BIAS_ANCHORS /\ EngineInit /\ AppInit

Spec == Init /\ [][Next]_vars

\* the engine on its own, with the shipped anchor table
InitCal == Init /\ cloud = {}

SpecCal == InitCal /\ [][NextCal]_vars

\* the engine on its own, with an anchor table swapped in as configuration
AnchorTables ==
    { FAT_BIAS_ANCHORS,
      << <<Num(1678000), Num(40000)>> >>,
      << <<Num(1678000), Num(40000)>>, <<Num(1678000), Num(44028)>>,
         <<Num(1830000), Num(71000)>> >>,
      << <<Num(1678000), Num(40000)>>, <<Num(1830000), Num(44028)>>,
         <<Num(1830000), Num(71000)>> >>,
      << <<Num(1678000), Num(40000)>>, <<Num(1830000), Num(71000)>> >> }

InitCfg == anchorTable \in AnchorTables /\ EngineInit /\ AppInit /\ cloud = {}

SpecCfg == InitCfg /\ [][NextCal]_vars

\* ------------------------------------------------------------------------
\* Properties of calibrate and fatBiasForWeight
\* ------------------------------------------------------------------------
\* the i-th object of the returned array, the i-th caller object as it is now
Out(i) == heap[result[i]]
Now(i) == heap[rows[i]]

Returned == calPc = "done"

\* both readings of a record are present / are finite numbers
Present(obj) == ~EqNull(Get(obj, "fat_percent")) /\ ~EqNull(Get(obj, "weight"))
Finite(obj)  == IsNum(Get(obj, "fat_percent")) /\ IsNum(Get(obj, "weight"))

\* C1: calibrate returns one record per input record, in the input's order:
\* the results are as many as the inputs, and the i-th result carries the
\* date and every field name of the i-th input.
C1_OneToOne ==
    Returned =>
        /\ Len(result) = Len(rows)
        /\ \A i \in 1..Len(rows) :
              /\ i <= Len(result)
              /\ Get(Out(i), "date") = Get(before[i], "date")
              /\ DOMAIN before[i] \subseteq DOMAIN Out(i)

\* a record that cannot be calibrated, then one that can, with another date
C1_Witness ==
    /\ Returned
    /\ Len(rows) = 2
    /\ ~Present(before[1])
    /\ Present(before[2])
    /\ before[1].date # before[2].date
    /\ Out(2).date = before[2].date

\* C2: a record whose fat_percent or weight is null or absent is returned
\* with exactly the fields and the values it came with.
C2_PassThrough ==
    Returned =>
        \A i \in 1..Len(rows) :
            ~Present(before[i]) => i <= Len(result) /\ Out(i) = before[i]

\* a record without a weight field and a record with a null fat_percent
C2_Witness ==
    /\ Returned
    /\ Len(rows) = 2
    /\ "weight" \notin DOMAIN before[1]
    /\ Get(before[2], "fat_percent") = Null
    /\ Get(before[2], "weight") # Null
    /\ Out(1) = before[1]
    /\ Out(2) = before[2]

\* C3: for a record with a finite weight and a finite fat_percent,
\* fat_percent_cal is a number between 5 and 35; it is exactly 5 when
\* fat_percent minus the bias is at most 5 and exactly 35 when it is at
\* least 35.
C3_ClampBounded ==
    Returned =>
        \A i \in 1..Len(result) :
            Finite(before[i]) =>
                LET cal == Get(Out(i), "fat_percent_cal")
                    raw == JSub(before[i].fat_percent, fatBiasForWeight(before[i].weight))
                IN  /\ IsNum(cal)
                    /\ FAT_MIN.v <= cal.v
                    /\ cal.v <= FAT_MAX.v
                    /\ JLe(raw, FAT_MIN) => cal = FAT_MIN
                    /\ JGe(raw, FAT_MAX) => cal = FAT_MAX

\* one record clamped up to 5 and one clamped down to 35
C3_Witness ==
    /\ Returned
    /\ Len(result) = 2
    /\ Finite(before[1])
    /\ Finite(before[2])
    /\ Get(Out(1), "fat_percent_cal") = FAT_MIN
    /\ Get(Out(2), "fat_percent_cal") = FAT_MAX

\* C4: at the weight of every anchor of FAT_BIAS_ANCHORS, fatBiasForWeight
\* returns that anchor's bias, and so does each branch that can evaluate the
\* anchor: the low extrapolation at the first, the high extrapolation at the
\* last, and the interpolation of either segment the anchor ends.
C4_AnchorContinuity ==
    LET pts == FAT_BIAS_ANCHORS
        n   == Len(pts)
    IN  \A k \in 1..n :
            biasIn = pts[k][1] =>
                /\ biasOut = pts[k][2]
                /\ k = 1 => extrapolateLow(pts, biasIn) = pts[k][2]
                /\ k = n => extrapolateHigh(pts, biasIn) = pts[k][2]
                /\ \A i \in 0..(n - 2) :
                      i \in {k - 2, k - 1} => interpolate(pts, i, biasIn) = pts[k][2]

\* fatBiasForWeight has been evaluated at the last anchor
C4_Witness ==
    /\ biasIn = FAT_BIAS_ANCHORS[Len(FAT_BIAS_ANCHORS)][1]
    /\ biasOut = FAT_BIAS_ANCHORS[Len(FAT_BIAS_ANCHORS)][2]

\* C5: after calibrate has returned, the caller's array has the length it had
\* and each of its objects the fields and values it had at the call.
C5_InputNotMutated ==
    calPc \in {"done", "threw"} =>
        /\ Len(rows) = Len(before)
        /\ \A i \in 1..Len(rows) : Now(i) = before[i]

\* a record was calibrated: the result has another weight and new fields
C5_Witness ==
    /\ Returned
    /\ \E i \in 1..Len(result) :
          /\ Present(before[i])
          /\ Out(i).weight # before[i].weight
          /\ "fat_percent_cal" \in DOMAIN Out(i)
          /\ "fat_percent_cal" \notin DOMAIN Now(i)
          /\ Now(i).weight = before[i].weight

\* the caller's array in another order
Permute(seq, p) == [i \in 1..Len(seq) |-> seq[p[i]]]

\* C7: calibrate of a permutation of the array is the same permutation of
\* calibrate of the array, and two records with equal weight and fat_percent
\* get equal weight, fat_percent_cal, muscle_percent, fat_lbs and muscle_lbs
\* whatever their dates and places.
C7_OrderIndependent ==
    Returned =>
        /\ \A p \in Permutations(1..Len(rows)) :
              calibrate(Permute(before, p)) = Permute([i \in 1..Len(result) |-> Out(i)], p)
        /\ \A i, j \in 1..Len(result) :
              /\ Get(before[i], "weight") = Get(before[j], "weight")
              /\ Get(before[i], "fat_percent") = Get(before[j], "fat_percent")
              => \A f \in CalFields \cup {"weight"} : Get(Out(i), f) = Get(Out(j), f)

\* two calibrated records with different weights and dates, in a batch
C7_Witness ==
    /\ Returned
    /\ Len(result) = 2
    /\ Finite(before[1])
    /\ Finite(before[2])
    /\ before[1].weight # before[2].weight
    /\ before[1].date # before[2].date
    /\ Out(1).fat_lbs # Out(2).fat_lbs

\* C10: for a record with both readings, the result's weight is the input's
\* weight minus WEIGHT_BIAS, its date is the input's date, and every field of
\* the input other than weight and the four calibrated fields has the input's
\* value.
C10_WeightAndCarry ==
    Returned =>
        \A i \in 1..Len(result) :
            Present(before[i]) =>
                /\ Out(i).weight = JSub(before[i].weight, WEIGHT_BIAS)
                /\ Get(Out(i), "date") = Get(before[i], "date")
                /\ \A f \in DOMAIN before[i] \ (CalFields \cup {"weight"}) :
                      Get(Out(i), f) = before[i][f]

\* a calibrated record that came with a field of its own
C10_Witness ==
    /\ Returned
    /\ \E i \in 1..Len(result) :
          /\ Finite(before[i])
          /\ "note" \in DOMAIN before[i]
          /\ Out(i).note = before[i].note
          /\ Out(i).weight.v = before[i].weight.v - WEIGHT_BIAS.v

\* ------------------------------------------------------------------------
\* Properties of the anchor table as configuration
\* ------------------------------------------------------------------------
\* fewer than two anchors, or a first or last segment of width zero
Degenerate(pts) ==
    \/ Len(pts) < 2
    \/ pts[1][1] = pts[2][1]
    \/ pts[Len(pts)][1] = pts[Len(pts) - 1][1]

\* C6: with a degenerate anchor table the engine does not come up, so
\* calibrate never returns a record with finite readings whose calibrated
\* fields are not finite numbers.
C6_FailFast ==
    Degenerate(anchorTable) =>
        ~ /\ Returned
          /\ \E i \in 1..Len(result) :
                /\ Finite(before[i])
                /\ \E f \in CalFields : ~IsNum(Get(Out(i), f))

\* ------------------------------------------------------------------------
\* Properties of the store
\* ------------------------------------------------------------------------
\* the raw rows: the rows supplied, as they are and as JSON carries them
RawRows == entered \cup {upsertBody(e) : e \in entered}

\* C8: every record of the local store, every row in a request to the cloud
\* and every row of the cloud holds date, weight and fat_percent as they were
\* supplied and nothing else; the corrected weight and the four calibrated
\* fields are in the rows handed to the charts only.
C8_NothingCalibratedStored ==
    /\ \A o \in local : DOMAIN o = RawFields /\ o \in RawRows
    /\ \A m \in inflight : DOMAIN m.body = RawFields /\ m.body \in RawRows
    /\ \A o \in cloud : [f \in RawFields |-> o[f]] \in RawRows
    /\ \A o \in cloud : DOMAIN o \cap CalFields = {}

\* the charts hold a calibrated row of a date whose stored record is raw
C8_Witness ==
    \E i \in 1..Len(chartData) :
        /\ CalFields \subseteq DOMAIN chartData[i]
        /\ \E o \in local :
              /\ o.date = chartData[i].date
              /\ DOMAIN o = RawFields
              /\ IsNum(o.weight)
              /\ chartData[i].weight = JSub(o.weight, WEIGHT_BIAS)

\* a request of saveMeasurement is sent in this step
SaveSends == \E m \in inflight' \ inflight : m.from = "save"

\* a request is answered, or fails, in this step
Answered == inflight' # inflight /\ inflight' \subseteq inflight

C9_Step ==
    /\ SaveSends => saveCommitted /\ local' = local
    /\ SaveSends => saveStatus' = "ok" /\ savePc' = 0
    /\ Answered => local' = local /\ saveStatus' = saveStatus /\ savePc' = savePc
    /\ saveStatus' = "failed" /\ saveStatus # "failed" => ~saveCommitted /\ inflight' = inflight
    /\ saveStatus' = "ok" /\ saveStatus = "pending" => saveCommitted /\ local' = local

\* C9: saveMeasurement sends its request to the cloud only when the local
\* write of its row has committed, and resolves in the step that sends it (or
\* that finds the cloud not configured); the answer or the failure of a
\* request changes neither the local store nor the outcome of the save, and
\* a save fails only on its local write.
C9_LocalFirst == [][C9_Step]_vars

\* the save has resolved, its row is stored, its request is still on its way
C9_Witness ==
    /\ saveStatus = "ok"
    /\ saveRow \in local
    /\ \E m \in inflight : m.from = "save" /\ m.body.date = saveRow.date

\* ------------------------------------------------------------------------
\* Properties of the steps of the callback
\* ------------------------------------------------------------------------
\* C11: for every record with both readings, fat_percent_cal is the clamp to
\* [5, 35] of fat_percent minus fatBiasForWeight at the weight the record
\* came with, not at that weight minus WEIGHT_BIAS.
C11_BiasAtRawWeight ==
    Returned =>
        \A i \in 1..Len(result) :
            Present(before[i]) =>
                Get(Out(i), "fat_percent_cal") =
                    clampFat(JSub(before[i].fat_percent,
                                  fatBiasForWeight(before[i].weight)))

\* a calibrated record, inside the clamp, whose fat_percent_cal would be
\* another number with the bias of the corrected weight
C11_Witness ==
    /\ Returned
    /\ \E i \in 1..Len(result) :
          /\ Finite(before[i])
          /\ IsNum(Out(i).fat_percent_cal)
          /\ FAT_MIN.v < Out(i).fat_percent_cal.v
          /\ Out(i).fat_percent_cal.v < FAT_MAX.v
          /\ Out(i).fat_percent_cal #
                clampFat(JSub(before[i].fat_percent,
                              fatBiasForWeight(JSub(before[i].weight, WEIGHT_BIAS))))

\* ------------------------------------------------------------------------
\* Properties of fatBiasForWeight outside the anchors
\* ------------------------------------------------------------------------
\* anchors in strictly increasing order of weight
Sorted(pts) == \A k \in 1..(Len(pts) - 1) : pts[k][1].v < pts[k + 1][1].v

\* y is the value at w of the line through anchors i and j (counted from 0)
\* taken from anchor b
OnLine(pts, i, j, b, w, y) ==
    y = JAdd(Elem(pts, b, 1), JMul(slopeOf(pts, i, j), JSub(w, Elem(pts, b, 0))))

\* y is no further from the bias of anchor b than the slope of the segment
\* from i to j allows at the distance of w from that anchor, up to one unit
\* of the last decimal place
NoJump(pts, i, j, b, w, y) ==
    /\ IsNum(y)
    /\ Abs(y.v - Elem(pts, b, 1).v)
          <= MulAbs(Abs(slopeOf(pts, i, j).v), Abs(w.v - Elem(pts, b, 0).v)) + 1
    /\ w = Elem(pts, b, 0) => y = Elem(pts, b, 1)

\* C12: with two or more anchors in increasing order of weight,
\* fatBiasForWeight at a weight at or below the first anchor is on the line
\* through anchors 0 and 1, at a weight at or above the last anchor on the
\* line through anchors n-2 and n-1, and its distance from the boundary
\* anchor's bias shrinks to zero with the distance of the weight from that
\* anchor.
C12_ExtrapolationPolicy ==
    LET pts == anchorTable
        n   == Len(pts)
    IN  (calPc = "bias" /\ n >= 2 /\ IsNum(biasIn)) =>
        (Sorted(pts) =>
            /\ biasIn.v <= pts[1][1].v =>
                  /\ OnLine(pts, 0, 1, 0, biasIn, biasOut)
                  /\ NoJump(pts, 0, 1, 0, biasIn, biasOut)
            /\ biasIn.v >= pts[n][1].v =>
                  /\ OnLine(pts, n - 2, n - 1, n - 1, biasIn, biasOut)
                  /\ NoJump(pts, n - 2, n - 1, n - 1, biasIn, biasOut))

\* fatBiasForWeight evaluated far below the first of two anchors, where the
\* line has left the first anchor's bias
C12_Witness ==
    /\ calPc = "bias"
    /\ Len(anchorTable) = 2
    /\ Sorted(anchorTable)
    /\ IsNum(biasIn)
    /\ IsNum(biasOut)
    /\ biasIn.v < anchorTable[1][1].v - 10 * ONE
    /\ biasOut.v < anchorTable[1][2].v - ONE

\* ------------------------------------------------------------------------
\* Properties of the derived fields
\* ------------------------------------------------------------------------
\* the calibrated linear model of muscle% at a weight and a fat%
MuscleModel(w, f) ==
    JAdd(JMul(MUSCLE_CAL.slope,
              JAdd(JAdd(MUSCLE_MODEL.intercept, JMul(w, MUSCLE_MODEL.weightCoef)),
                   JMul(f, MUSCLE_MODEL.fatCoef))),
         MUSCLE_CAL.intercept)

\* C13: for every record with both readings, muscle_percent is the calibrated
\* linear model at the result's weight and fat_percent_cal, fat_lbs is
\* weight * fat_percent_cal / 100 and muscle_lbs is weight * muscle_percent /
\* 100, all three taken from the result's corrected values.
C13_DerivedFromCorrected ==
    Returned =>
        \A i \in 1..Len(result) :
            Present(before[i]) =>
                /\ Get(Out(i), "muscle_percent") =
                      MuscleModel(Out(i).weight, Get(Out(i), "fat_percent_cal"))
                /\ Get(Out(i), "fat_lbs") =
                      JDiv(JMul(Out(i).weight, Get(Out(i), "fat_percent_cal")), HUNDRED)
                /\ Get(Out(i), "muscle_lbs") =
                      JDiv(JMul(Out(i).weight, Get(Out(i), "muscle_percent")), HUNDRED)

\* a calibrated record whose fat% was clamped and whose derived fields would
\* be other numbers from the readings it came with
C13_Witness ==
    /\ Returned
    /\ \E i \in 1..Len(result) :
          /\ Finite(before[i])
          /\ Out(i).fat_percent_cal = FAT_MAX
          /\ IsNum(Out(i).muscle_percent)
          /\ IsNum(Out(i).fat_lbs)
          /\ IsNum(Out(i).muscle_lbs)
          /\ Out(i).muscle_percent # MuscleModel(before[i].weight, Out(i).fat_percent_cal)
          /\ Out(i).muscle_percent # MuscleModel(Out(i).weight, before[i].fat_percent)
          /\ Out(i).fat_lbs # JDiv(JMul(before[i].weight, before[i].fat_percent), HUNDRED)
          /\ Out(i).muscle_lbs # JDiv(JMul(before[i].weight, Out(i).muscle_percent), HUNDRED)

\* ------------------------------------------------------------------------
\* Properties of syncFromCloud
\* ------------------------------------------------------------------------
\* syncFromCloud has resolved, and from its call to now the local store has
\* been written by it alone
SyncedAlone == sfStatus = "ok" /\ sfPc = "idle" /\ sfAlone /\ local = sfLocal

FetchedDates == {sfFetched[k].date : k \in 1..Len(sfFetched)}

\* C14: when syncFromCloud has resolved with no other write to the local
\* store since its call, the local store holds every fetched row with the
\* fetched values and nothing else under its date, every row it held at the
\* call under a date that was not fetched, and no other row; the count
\* returned is the number of fetched rows; and when the cloud is not
\* configured the count is 0 and the local store is as it was at the call.
C14_CloudWins ==
    SyncedAlone =>
        /\ \A k \in 1..Len(sfFetched) :
              \A o \in local : o.date = sfFetched[k].date <=> o = sfFetched[k]
        /\ \A k \in 1..Len(sfFetched) : sfFetched[k] \in local
        /\ \A o \in sfBefore : o.date \notin FetchedDates => o \in local
        /\ \A o \in local : o.date \notin FetchedDates => o \in sfBefore
        /\ sfCount = Len(sfFetched)
        /\ ~supa => sfCount = 0 /\ local = sfBefore

\* a sync that replaced the local row of a fetched date with the cloud's
\* values and kept the local row of a date the cloud did not have
C14_Witness ==
    /\ SyncedAlone
    /\ sfCount = 1
    /\ \E o \in sfBefore :
          /\ o.date = sfFetched[1].date
          /\ o # sfFetched[1]
          /\ o \notin local
          /\ sfFetched[1] \in local
    /\ \E o \in sfBefore : o.date \notin FetchedDates /\ o \in local

\* ------------------------------------------------------------------------
\* Completeness of the calibration on present values
\* ------------------------------------------------------------------------
\* C15: with the shipped anchor table, every record whose weight and
\* fat_percent are numbers, zero included, comes back with fat_percent_cal,
\* muscle_percent, fat_lbs and muscle_lbs all numbers, and fatBiasForWeight
\* at a number returns a number: one of its three branches always returns.
C15_CompleteOnNumbers ==
    /\ Returned =>
          \A i \in 1..Len(result) :
              Finite(before[i]) =>
                  \A f \in CalFields :
                      f \in DOMAIN Out(i) /\ IsNum(Out(i)[f])
    /\ calPc = "bias" /\ IsNum(biasIn) => IsNum(biasOut)

\* a record with weight 0 and fat% 0 and a record between two anchors, both
\* calibrated
C15_Witness ==
    /\ Returned
    /\ Len(result) = 2
    /\ Get(before[1], "weight") = Num(0)
    /\ Get(before[1], "fat_percent") = Num(0)
    /\ Get(before[2], "weight") = Num(1700000)
    /\ IsNum(Get(before[2], "fat_percent"))
    /\ \A i \in 1..2 : \A f \in CalFields : f \in DOMAIN Out(i) /\ IsNum(Out(i)[f])

====
